---- MODULE Spec2Model ----
(***************************************************************************)
(* Model of the vega wallet client SDK: the command / request / response   *)
(* shapes with their serde wire contract (src/src/commands.rs,             *)
(* src/src/request.rs, src/src/response.rs) and the WalletClient           *)
(* (src/src/lib.rs).                                                       *)
(*                                                                         *)
(* Two specifications share the module: Spec runs the WalletClient against *)
(* a wallet service that answers as it likes, SpecCodec applies the        *)
(* derived serializers, deserializers and the Request constructors to      *)
(* inputs drawn from bounded sets.                                         *)
(***************************************************************************)
EXTENDS Integers, Sequences, FiniteSets, TLC

VARIABLES
    \* ---- codec side ----
    stage,      \* position of the codec run
    cmd,        \* the Command value handed to the serializer (or NoValue)
    wire,       \* the JSON value on the wire (or NoValue)
    decoded,    \* what the deserializer returned (or NoValue)
    req,        \* the Request built by a constructor (or NoValue)
    rnd,        \* the value rand::random::<u64>() returned for req
    enum,       \* the enum type and variant of an enum codec run (or NoValue)
    \* ---- client side ----
    pc,         \* position of the caller of the WalletClient
    client,     \* the WalletClient the caller holds (or NoValue)
    args,       \* the arguments given to WalletClient::new
    net,        \* the HTTP requests issued so far, with their outcomes
    sentId,     \* the id of the Request in flight
    lastOp,     \* the last operation that returned to the caller
    lastResult, \* what that operation returned
    calls       \* number of operations that have returned to the caller

codecVars == <<stage, cmd, wire, decoded, req, rnd, enum>>
clientVars == <<pc, client, args, net, sentId, lastOp, lastResult, calls>>
vars == <<stage, cmd, wire, decoded, req, rnd, enum,
          pc, client, args, net, sentId, lastOp, lastResult, calls>>

\* Most instructions, over its three lists, in a BatchMarketInstructions
\* drawn as an input.
MaxBatch == 3
\* Number of operations the caller runs on one run of the client.
MaxCalls == 3

NoValue == [none |-> TRUE]

-----------------------------------------------------------------------------
(* Strings, character by character.                                        *)

Char(s, i) == SubSeq(s, i, i)

LowerAlphabet == "abcdefghijklmnopqrstuvwxyz"
UpperAlphabet == "ABCDEFGHIJKLMNOPQRSTUVWXYZ"
Digits == "0123456789"

IsLower(c) == \E i \in 1..26 : Char(LowerAlphabet, i) = c
IsUpper(c) == \E i \in 1..26 : Char(UpperAlphabet, i) = c

to_ascii_uppercase(c) ==
    IF IsLower(c)
    THEN Char(UpperAlphabet, CHOOSE i \in 1..26 : Char(LowerAlphabet, i) = c)
    ELSE c

to_ascii_lowercase(c) ==
    IF IsUpper(c)
    THEN Char(LowerAlphabet, CHOOSE i \in 1..26 : Char(UpperAlphabet, i) = c)
    ELSE c

\* u64::to_string: the decimal rendering, no sign, no leading zero.
RECURSIVE to_string(_)
to_string(n) ==
    IF n < 10 THEN Char(Digits, n + 1)
    ELSE to_string(n \div 10) \o Char(Digits, (n % 10) + 1)

-----------------------------------------------------------------------------
(* JSON values, as serde_json writes and reads them.  An object is the     *)
(* sequence of its <<key, value>> members in document order.               *)

JNull == [t |-> "null"]
JStr(s) == [t |-> "str", s |-> s]
JNum(n) == [t |-> "num", n |-> n]
JArr(a) == [t |-> "arr", a |-> a]
JObj(o) == [t |-> "obj", o |-> o]
\* A body that is not JSON at all.
JGarbage == [t |-> "garbage"]

\* Rust's Option and Result.
None == [some |-> FALSE]
Some(x) == [some |-> TRUE, val |-> x]
Ok(x) == [ok |-> TRUE, val |-> x]
Err(e) == [ok |-> FALSE, err |-> e]

-----------------------------------------------------------------------------
(* The types that derive Serialize / Deserialize, as serde_derive sees     *)
(* them: fields in declaration order, the container's rename_all rule,     *)
(* and the explicit renames.                                               *)

IntTypes == {"u64", "i64", "i32"}

UnitEnums == {"TimeInForce", "OrderType", "Side", "PeggedReference", "VoteValue"}

\* <<variant, its #[serde(rename = ...)] or "">>, in declaration order.
Variants(ty) ==
    CASE ty = "TimeInForce" ->
            << <<"Unspecified", "TIME_IN_FORCE_UNSPECIFIED">>,
               <<"Gtc", "TIME_IN_FORCE_GTC">>,
               <<"Gtt", "TIME_IN_FORCE_GTT">>,
               <<"Ioc", "TIME_IN_FORCE_IOC">>,
               <<"Fok", "TIME_IN_FORCE_FOK">>,
               <<"Gfa", "TIME_IN_FORCE_GFA">>,
               <<"Gfn", "TIME_IN_FORCE_GFN">> >>
      [] ty = "OrderType" ->
            << <<"Unspecified", "TYPE_UNSPECIFIED">>,
               <<"Limit", "TYPE_LIMIT">>,
               <<"Market", "TYPE_MARKET">>,
               <<"Network", "TYPE_NETWORK">> >>
      [] ty = "Side" ->
            << <<"Unspecified", "SIDE_UNSPECIFIED">>,
               <<"Buy", "SIDE_BUY">>,
               <<"Sell", "SIDE_SELL">> >>
      [] ty = "PeggedReference" ->
            << <<"Unspecified", "PEGGED_REFERENCE_UNSPECIFIED">>,
               <<"Mid", "PEGGED_REFERENCE_MID">>,
               <<"BestBid", "PEGGED_REFERENCE_BEST_BID">>,
               <<"BestAsk", "PEGGED_REFERENCE_BEST_ASK">> >>
      [] ty = "VoteValue" ->
            << <<"Unspecified", "VALUE_UNSPECIFIED">>,
               <<"No", "VALUE_NO">>,
               <<"Yes", "VALUE_YES">> >>
      [] ty = "Command" ->
            << <<"BatchMarketInstructions", "">>,
               <<"OrderSubmission", "">>,
               <<"OrderCancellation", "">>,
               <<"OrderAmendment", "">>,
               <<"VoteSubmission", "">> >>

VariantNames(ty) == {Variants(ty)[i][1] : i \in 1..Len(Variants(ty))}

\* <<field, type, its #[serde(rename = ...)] or "">>, in declaration order.
Fields(ty) ==
    CASE ty = "BatchMarketInstructions" ->
            << <<"cancellations", "Vec<OrderCancellation>", "">>,
               <<"amendments", "Vec<OrderAmendment>", "">>,
               <<"submissions", "Vec<OrderSubmission>", "">> >>
      [] ty = "PeggedOrder" ->
            << <<"reference", "PeggedReference", "">>,
               <<"offset", "String", "">> >>
      [] ty = "OrderSubmission" ->
            << <<"market_id", "String", "">>,
               <<"price", "String", "">>,
               <<"size", "u64", "">>,
               <<"side", "Side", "">>,
               <<"time_in_force", "TimeInForce", "">>,
               <<"expires_at", "i64", "">>,
               <<"r#type", "OrderType", "">>,
               <<"reference", "String", "">>,
               <<"pegged_order", "Option<PeggedOrder>", "">> >>
      [] ty = "OrderCancellation" ->
            << <<"order_id", "String", "">>,
               <<"market_id", "String", "">> >>
      [] ty = "OrderAmendment" ->
            << <<"order_id", "String", "">>,
               <<"market_id", "String", "">>,
               <<"price", "Option<String>", "">>,
               <<"size_delta", "i64", "">>,
               <<"expires_at", "Option<i64>", "">>,
               <<"time_in_force", "TimeInForce", "">>,
               <<"pegged_offset", "String", "">>,
               <<"pegged_reference", "i32", "">> >>
      [] ty = "VoteSubmission" ->
            << <<"proposal_id", "String", "">>,
               <<"value", "VoteValue", "">> >>
      [] ty = "Params" ->
            << <<"sending_mode", "String", "">>,
               <<"transaction", "Command", "">> >>
      [] ty = "Request" ->
            << <<"version", "String", "jsonrpc">>,
               <<"method", "String", "">>,
               <<"params", "Option<Params>", "">>,
               <<"id", "String", "">> >>
      [] ty = "Response<KeysResponse>" ->
            << <<"version", "String", "jsonrpc">>,
               <<"result", "KeysResponse", "">>,
               <<"id", "String", "">> >>
      [] ty = "KeysResponse" ->
            << <<"keys", "Vec<Key>", "">> >>
      [] ty = "Key" ->
            << <<"name", "String", "">>,
               <<"public_key", "String", "">> >>

FieldNames(ty) == {Fields(ty)[i][1] : i \in 1..Len(Fields(ty))}

\* The container attribute #[serde(rename_all = "camelCase")], where given.
RenameAll(ty) ==
    IF ty \in {"BatchMarketInstructions", "TimeInForce", "OrderType", "Side",
               "PeggedReference", "PeggedOrder", "OrderSubmission",
               "OrderCancellation", "OrderAmendment", "Command",
               "Params", "Request", "Response<KeysResponse>",
               "KeysResponse", "Key"}
    THEN "camelCase"
    ELSE "none"

IsOption(ty) == ty \in {"Option<String>", "Option<i64>", "Option<PeggedOrder>",
                        "Option<Params>"}
IsVec(ty) == ty \in {"Vec<OrderCancellation>", "Vec<OrderAmendment>",
                     "Vec<OrderSubmission>", "Vec<Key>"}
\* The type parameter of an Option<T> or a Vec<T>.
Inner(ty) ==
    CASE ty = "Option<String>" -> "String"
      [] ty = "Option<i64>" -> "i64"
      [] ty = "Option<PeggedOrder>" -> "PeggedOrder"
      [] ty = "Option<Params>" -> "Params"
      [] ty = "Vec<OrderCancellation>" -> "OrderCancellation"
      [] ty = "Vec<OrderAmendment>" -> "OrderAmendment"
      [] ty = "Vec<OrderSubmission>" -> "OrderSubmission"
      [] ty = "Vec<Key>" -> "Key"

-----------------------------------------------------------------------------
(* serde_derive's renaming.                                                *)

\* A raw identifier (r#type) is named without its r# prefix.
unraw(f) ==
    IF Len(f) > 2 /\ SubSeq(f, 1, 2) = "r#" THEN SubSeq(f, 3, Len(f)) ELSE f

\* PascalCase of a snake_case field: drop each '_' and capitalize what follows.
RECURSIVE PascalFrom(_, _, _)
PascalFrom(field, i, capitalize) ==
    IF i > Len(field) THEN ""
    ELSE IF Char(field, i) = "_" THEN PascalFrom(field, i + 1, TRUE)
    ELSE IF capitalize
         THEN to_ascii_uppercase(Char(field, i)) \o PascalFrom(field, i + 1, FALSE)
         ELSE Char(field, i) \o PascalFrom(field, i + 1, FALSE)

apply_to_field(rule, field) ==
    IF rule = "camelCase"
    THEN LET pascal == PascalFrom(field, 1, TRUE)
         IN  IF pascal = "" THEN ""
             ELSE to_ascii_lowercase(Char(pascal, 1)) \o SubSeq(pascal, 2, Len(pascal))
    ELSE field

apply_to_variant(rule, variant) ==
    IF rule = "camelCase"
    THEN to_ascii_lowercase(Char(variant, 1)) \o SubSeq(variant, 2, Len(variant))
    ELSE variant

StructTypes ==
    {"BatchMarketInstructions", "PeggedOrder", "OrderSubmission",
     "OrderCancellation", "OrderAmendment", "VoteSubmission", "Params",
     "Request", "Response<KeysResponse>", "KeysResponse", "Key"}

\* The names of the fields on the wire, as the derive macro fixes them at
\* compile time: the field's rename, or else the container's rule applied
\* to the field's name.
WireFieldNames ==
    [ty \in StructTypes |->
        [i \in 1..Len(Fields(ty)) |->
            IF Fields(ty)[i][3] # "" THEN Fields(ty)[i][3]
            ELSE apply_to_field(RenameAll(ty), unraw(Fields(ty)[i][1]))]]

\* The name a field has on the wire.
WireField(ty, i) == WireFieldNames[ty][i]

\* WireVariant with the variants' rename attributes lost: the container's
\* rename_all rule alone names the variant.
WireVariant_unrenamed(ty, i) ==
    apply_to_variant(RenameAll(ty), Variants(ty)[i][1])

\* The name a variant has on the wire.
WireVariant(ty, i) ==
    IF Variants(ty)[i][2] # "" THEN Variants(ty)[i][2]
    ELSE apply_to_variant(RenameAll(ty), Variants(ty)[i][1])

VariantIndex(ty, v) == CHOOSE i \in 1..Len(Variants(ty)) : Variants(ty)[i][1] = v

-----------------------------------------------------------------------------
(* The derived Serialize implementations, writing serde_json.              *)

RECURSIVE Ser(_, _)

\* SerNone writing the inner type's default where the value is absent.
SerNone_default(ty) ==
    IF Inner(ty) = "String" THEN JStr("")
    ELSE IF Inner(ty) = "i64" THEN JNum(0)
    ELSE JNull

\* Option::None is written as null.
SerNone(ty) == JNull

\* A struct is written as an object, one member per field, in field order.
SerStruct(ty, v) ==
    JObj([i \in 1..Len(Fields(ty)) |->
            <<WireField(ty, i), Ser(Fields(ty)[i][2], v[Fields(ty)[i][1]])>>])

\* A unit variant is written as its name.
SerUnitVariant(ty, v) == JStr(WireVariant(ty, VariantIndex(ty, v)))

\* A newtype variant is written as a one-member object, name : payload
\* (serde's externally tagged representation).
SerNewtypeVariant(ty, v) ==
    JObj(<< <<WireVariant(ty, VariantIndex(ty, v.variant)),
              Ser(v.variant, v.payload)>> >>)

Ser(ty, v) ==
    IF ty = "String" THEN JStr(v)
    ELSE IF ty \in IntTypes THEN JNum(v)
    ELSE IF IsOption(ty)
         THEN IF v.some THEN Ser(Inner(ty), v.val) ELSE SerNone(ty)
    ELSE IF IsVec(ty)
         THEN JArr([i \in 1..Len(v) |-> Ser(Inner(ty), v[i])])
    ELSE IF ty \in UnitEnums THEN SerUnitVariant(ty, v)
    ELSE IF ty = "Command" THEN SerNewtypeVariant(ty, v)
    ELSE SerStruct(ty, v)

-----------------------------------------------------------------------------
(* The derived Deserialize implementations, reading serde_json.  Every     *)
(* failure is a serde_json::Error; msg is its text, for the reader.        *)

SerdeError(msg) == Err([kind |-> "serde_json::Error", msg |-> msg])

RECURSIVE De(_, _)

\* The positions of the members of object j named k.
Members(j, k) == {i \in 1..Len(j.o) : j.o[i][1] = k}

\* The first failure among the n results rs, or else all their values.
Collect(rs, n) ==
    IF \A i \in 1..n : rs[i].ok THEN Ok([i \in 1..n |-> rs[i].val])
    ELSE rs[CHOOSE i \in 1..n : ~rs[i].ok /\ \A k \in 1..(i - 1) : rs[k].ok]

\* A field that no member names: None for an Option, an error otherwise.
DeMissing(fty) ==
    IF IsOption(fty) THEN Ok(None) ELSE SerdeError("missing field")

\* Field i of struct ty out of object j.
DeField(ty, i, j) ==
    LET at == Members(j, WireField(ty, i))
        fty == Fields(ty)[i][2]
    IN  IF Cardinality(at) > 1 THEN SerdeError("duplicate field")
        ELSE IF at = {} THEN DeMissing(fty)
        ELSE De(fty, j.o[CHOOSE x \in at : TRUE][2])

\* A struct is read from an object (members by name, unknown names ignored)
\* or from an array (fields by position).
DeStruct(ty, j) ==
    LET n == Len(Fields(ty))
        index(f) == CHOOSE i \in 1..n : Fields(ty)[i][1] = f
        build(r) == IF r.ok THEN Ok([f \in FieldNames(ty) |-> r.val[index(f)]])
                    ELSE r
    IN  IF j.t = "obj"
        THEN build(Collect([i \in 1..n |-> DeField(ty, i, j)], n))
        ELSE IF j.t = "arr"
        THEN IF Len(j.a) # n THEN SerdeError("invalid length")
             ELSE build(Collect([i \in 1..n |-> De(Fields(ty)[i][2], j.a[i])], n))
        ELSE SerdeError("invalid type")

\* The payload of variant i of enum ty out of JSON value j: a unit variant
\* takes null, a newtype variant takes its payload type (named as the variant).
DeVariantPayload(ty, i, j) ==
    IF ty \in UnitEnums
    THEN IF j.t = "null" THEN Ok(Variants(ty)[i][1])
         ELSE SerdeError("invalid type")
    ELSE LET r == De(Variants(ty)[i][1], j)
         IN  IF r.ok THEN Ok([variant |-> Variants(ty)[i][1], payload |-> r.val])
             ELSE r

\* DeEnum reading the first member of an object and not looking for its end.
DeEnum_first_member(ty, j) ==
    LET known(k) == {i \in 1..Len(Variants(ty)) : WireVariant(ty, i) = k}
    IN  IF j.t = "str"
        THEN IF known(j.s) = {} THEN SerdeError("unknown variant")
             ELSE IF ty \in UnitEnums
                  THEN Ok(Variants(ty)[CHOOSE i \in known(j.s) : TRUE][1])
                  ELSE SerdeError("invalid type: unit variant")
        ELSE IF j.t = "obj"
        THEN IF Len(j.o) = 0 THEN SerdeError("expected value")
             ELSE IF known(j.o[1][1]) = {} THEN SerdeError("unknown variant")
             ELSE DeVariantPayload(ty, CHOOSE i \in known(j.o[1][1]) : TRUE, j.o[1][2])
        ELSE SerdeError("invalid type")

\* An enum is read from a string (a unit variant's name) or from an object
\* holding exactly one member, name : payload.
DeEnum(ty, j) ==
    LET known(k) == {i \in 1..Len(Variants(ty)) : WireVariant(ty, i) = k}
    IN  IF j.t = "str"
        THEN IF known(j.s) = {} THEN SerdeError("unknown variant")
             ELSE IF ty \in UnitEnums
                  THEN Ok(Variants(ty)[CHOOSE i \in known(j.s) : TRUE][1])
                  ELSE SerdeError("invalid type: unit variant")
        ELSE IF j.t = "obj"
        THEN IF Len(j.o) = 0 THEN SerdeError("expected value")
             ELSE IF known(j.o[1][1]) = {} THEN SerdeError("unknown variant")
             ELSE LET r == DeVariantPayload(ty, CHOOSE i \in known(j.o[1][1]) : TRUE,
                                            j.o[1][2])
                  IN  IF ~r.ok THEN r
                      ELSE IF Len(j.o) > 1 THEN SerdeError("expected end of object")
                      ELSE r
        ELSE SerdeError("invalid type")

\* The range of an integer type (the model's integers stand for all widths).
InRange(ty, n) == IF ty = "u64" THEN n >= 0 ELSE TRUE

De(ty, j) ==
    IF j.t = "garbage" THEN SerdeError("expected value")
    ELSE IF ty = "String"
         THEN IF j.t = "str" THEN Ok(j.s) ELSE SerdeError("invalid type")
    ELSE IF ty \in IntTypes
         THEN IF j.t = "num" /\ InRange(ty, j.n) THEN Ok(j.n)
              ELSE SerdeError("invalid type")
    ELSE IF IsOption(ty)
         THEN IF j.t = "null" THEN Ok(None)
              ELSE LET r == De(Inner(ty), j)
                   IN  IF r.ok THEN Ok(Some(r.val)) ELSE r
    ELSE IF IsVec(ty)
         THEN IF j.t = "arr"
              THEN Collect([i \in 1..Len(j.a) |-> De(Inner(ty), j.a[i])], Len(j.a))
              ELSE SerdeError("invalid type")
    ELSE IF ty \in UnitEnums \/ ty = "Command" THEN DeEnum(ty, j)
    ELSE DeStruct(ty, j)

-----------------------------------------------------------------------------
(* The Request constructors (src/src/request.rs).                          *)

\* Params::new with another sending mode.
Params_new_async(c) == [sending_mode |-> "TYPE_ASYNC", transaction |-> c]

Params_new(c) == [sending_mode |-> "TYPE_SYNC", transaction |-> c]

\* r is what rand::random::<u64>() returns.
new_send_transaction(c, r) ==
    [version |-> "2.0",
     method |-> "client.send_transaction",
     params |-> Some(Params_new(c)),
     id |-> to_string(r)]

new_list_keys(r) ==
    [version |-> "2.0",
     method |-> "client.list_keys",
     params |-> None,
     id |-> to_string(r)]

\* Command::from(VoteSubmission)
Command_from(vs) == [variant |-> "VoteSubmission", payload |-> vs]

-----------------------------------------------------------------------------
(* The inputs of the codec runs.                                           *)

SeqsUpTo(S, n) == UNION {[1..k -> S] : k \in 0..n}

Ids == {"abc", "def"}

\* Values rand::random::<u64>() returns (the model's integers end at 2^31 - 1).
RandomU64 == {0, 7, 10, 4096, 2147483647}

OrderCancellations == [order_id : Ids, market_id : Ids]

PeggedOrders == {[reference |-> "BestAsk", offset |-> "100"],
                 [reference |-> "Mid", offset |-> "5"]}

OrderSubmissionOf(price, size, side, tif, exp, type, peg) ==
    ("r#type" :> type) @@
    [market_id |-> "def", price |-> price, size |-> size, side |-> side,
     time_in_force |-> tif, expires_at |-> exp, reference |-> "",
     pegged_order |-> peg]

OrderSubmissions ==
    {OrderSubmissionOf(price, size, side, tif, 7, type, peg) :
        price \in {"", "123456"}, size \in {0, 5},
        side \in VariantNames("Side"), tif \in {"Gtc", "Gtt"},
        type \in {"Limit", "Market"},
        peg \in {None} \cup {Some(p) : p \in PeggedOrders}}

OrderAmendments ==
    [order_id : {"abc"}, market_id : {"def"},
     price : {None, Some("100")},
     size_delta : {-1, 0, 1},
     expires_at : {None, Some(0), Some(5)},
     time_in_force : {"Unspecified", "Gtt"},
     pegged_offset : {"", "10"},
     pegged_reference : {0, 3}]

VoteSubmissions == [proposal_id : Ids, value : VariantNames("VoteValue")]

\* The entries the lists of a batch are drawn from.
BatchCancellations == {[order_id |-> "abc", market_id |-> "def"],
                       [order_id |-> "def", market_id |-> "def"]}
BatchAmendments ==
    {[order_id |-> "abc", market_id |-> "def", price |-> None, size_delta |-> -1,
      expires_at |-> Some(5), time_in_force |-> "Unspecified",
      pegged_offset |-> "", pegged_reference |-> 0],
     [order_id |-> "abc", market_id |-> "def", price |-> Some("100"),
      size_delta |-> 0, expires_at |-> None, time_in_force |-> "Gtt",
      pegged_offset |-> "10", pegged_reference |-> 3]}
BatchSubmissions ==
    {OrderSubmissionOf("123456", 5, "Buy", "Gtc", 0, "Limit", None),
     OrderSubmissionOf("", 1, "Sell", "Gtt", 7, "Market",
                       Some([reference |-> "BestAsk", offset |-> "100"]))}

BatchMarketInstructionss ==
    {b \in [cancellations : SeqsUpTo(BatchCancellations, MaxBatch),
            amendments : SeqsUpTo(BatchAmendments, MaxBatch),
            submissions : SeqsUpTo(BatchSubmissions, MaxBatch)] :
        Len(b.cancellations) + Len(b.amendments) + Len(b.submissions) <= MaxBatch}

Payloads(variant) ==
    CASE variant = "BatchMarketInstructions" -> BatchMarketInstructionss
      [] variant = "OrderSubmission" -> OrderSubmissions
      [] variant = "OrderCancellation" -> OrderCancellations
      [] variant = "OrderAmendment" -> OrderAmendments
      [] variant = "VoteSubmission" -> VoteSubmissions

Commands ==
    UNION {{[variant |-> v, payload |-> p] : p \in Payloads(v)} :
              v \in VariantNames("Command")}

\* Commands the Request constructors are applied to.
RequestCommands ==
    {[variant |-> "OrderCancellation", payload |-> p] : p \in OrderCancellations}
    \cup {Command_from(vs) : vs \in VoteSubmissions}
    \cup {[variant |-> "OrderAmendment", payload |-> p] : p \in BatchAmendments}

\* Payloads as a peer writes them, one per variant, from which command
\* objects not written by this library are put together.
PeerPayloads ==
    {Ser("OrderCancellation", [order_id |-> "abc", market_id |-> "def"]),
     Ser("VoteSubmission", [proposal_id |-> "abc", value |-> "Yes"]),
     JObj(<< <<"marketId", JStr("def")>>, <<"note", JNull>>,
             <<"orderId", JStr("abc")>> >>),
     JNull}

PeerKeys ==
    {"batchMarketInstructions", "orderSubmission", "orderCancellation",
     "orderAmendment", "voteSubmission",
     "OrderCancellation", "order_cancellation", "vote_submission", "cancel", ""}

\* Command objects of zero, one and two members.
PeerCommandObjects ==
    {JObj(<<>>)}
    \cup {JObj(<< <<k, p>> >>) : k \in PeerKeys, p \in PeerPayloads}
    \cup {JObj(<< <<k1, p>>, <<k2, p>> >>) :
             k1 \in {"orderCancellation", "voteSubmission", "cancel"},
             k2 \in {"orderCancellation", "voteSubmission", "cancel"},
             p \in PeerPayloads}

\* Strings a peer may send where an enum tag is expected.
PeerTags ==
    {Variants(ty)[i][2] : ty \in UnitEnums, i \in 1..3}
    \cup {"", "Buy", "buy", "side_buy", "SIDE_BUYS", "SIDE_", "Unspecified",
          "unspecified", "UNSPECIFIED", "VALUE_MAYBE", "0"}

-----------------------------------------------------------------------------
(* The codec runs.                                                         *)

InitCodec ==
    /\ stage = "idle"
    /\ cmd = NoValue
    /\ wire = NoValue
    /\ decoded = NoValue
    /\ req = NoValue
    /\ rnd = 0
    /\ enum = NoValue

\* serde_json::to_string(&command)
SerializeCommand(c) ==
    /\ stage = "idle"
    /\ cmd' = c
    /\ wire' = Ser("Command", c)
    /\ stage' = "serialized"
    /\ UNCHANGED <<decoded, req, rnd, enum>>
    /\ UNCHANGED clientVars

\* A command object arrives that this library did not write.
ReceiveCommand(j) ==
    /\ stage = "idle"
    /\ wire' = j
    /\ stage' = "received"
    /\ UNCHANGED <<cmd, decoded, req, rnd, enum>>
    /\ UNCHANGED clientVars

\* serde_json::from_str::<Command>(..)
DeserializeCommand ==
    /\ stage \in {"serialized", "received"}
    /\ decoded' = De("Command", wire)
    /\ stage' = "decoded"
    /\ UNCHANGED <<cmd, wire, req, rnd, enum>>
    /\ UNCHANGED clientVars

\* Serialize of one of the five unit enums.
EncodeEnum(ty, v) ==
    /\ stage = "idle"
    /\ enum' = [ty |-> ty, variant |-> v]
    /\ wire' = Ser(ty, v)
    /\ stage' = "enum_encoded"
    /\ UNCHANGED <<cmd, decoded, req, rnd>>
    /\ UNCHANGED clientVars

\* A tag arrives where an enum of type ty is expected.
ReceiveTag(ty, s) ==
    /\ stage = "idle"
    /\ enum' = [ty |-> ty, variant |-> "?"]
    /\ wire' = JStr(s)
    /\ stage' = "enum_received"
    /\ UNCHANGED <<cmd, decoded, req, rnd>>
    /\ UNCHANGED clientVars

\* Deserialize of one of the five unit enums.
DecodeEnum ==
    /\ stage \in {"enum_encoded", "enum_received"}
    /\ decoded' = De(enum.ty, wire)
    /\ stage' = "enum_decoded"
    /\ UNCHANGED <<cmd, wire, req, rnd, enum>>
    /\ UNCHANGED clientVars

\* Request::new_send_transaction(c), then its serialization.
NewSendTransaction(c, r) ==
    /\ stage = "idle"
    /\ cmd' = c
    /\ rnd' = r
    /\ req' = new_send_transaction(c, r)
    /\ wire' = Ser("Request", new_send_transaction(c, r))
    /\ stage' = "send_transaction"
    /\ UNCHANGED <<decoded, enum>>
    /\ UNCHANGED clientVars

\* Request::new_list_keys(), then its serialization.
NewListKeys(r) ==
    /\ stage = "idle"
    /\ rnd' = r
    /\ req' = new_list_keys(r)
    /\ wire' = Ser("Request", new_list_keys(r))
    /\ stage' = "list_keys"
    /\ UNCHANGED <<cmd, decoded, enum>>
    /\ UNCHANGED clientVars

NextCodec ==
    \/ \E c \in Commands : SerializeCommand(c)
    \/ \E j \in PeerCommandObjects : ReceiveCommand(j)
    \/ DeserializeCommand
    \/ \E ty \in UnitEnums : \E v \in VariantNames(ty) : EncodeEnum(ty, v)
    \/ \E ty \in UnitEnums : \E s \in PeerTags : ReceiveTag(ty, s)
    \/ DecodeEnum
    \/ \E c \in RequestCommands : \E r \in RandomU64 : NewSendTransaction(c, r)
    \/ \E r \in RandomU64 : NewListKeys(r)

-----------------------------------------------------------------------------
(* The WalletClient (src/src/lib.rs) and the wallet service it talks to.   *)

\* Error::from(reqwest::Error)
Error_from(e) == [kind |-> "ReqwestError", source |-> e]

Endpoints_new(base_url, token) ==
    [token_header |-> "VWT " \o token,
     base_url |-> base_url,
     health |-> base_url \o "/api/v2/health",
     request |-> base_url \o "/api/v2/requests"]

\* The value WalletClient::new builds before it checks the service's health.
WalletClient_of(a) ==
    [endpoints |-> Endpoints_new(a.wallet_address, a.token),
     pubkey |-> a.pubkey]

\* What RequestBuilder::send() resolves to: a transport failure is an Err,
\* a response of any status is an Ok.
NetworkErrors == {[kind |-> "connect"], [kind |-> "timeout"]}
Failure(e) == [kind |-> "error", err |-> e]
Response(status, body) == [kind |-> "response", status |-> status, body |-> body]
Pending == [kind |-> "pending"]

\* check_health: `self.clt.get(..).send().await?` and then Ok(()).
check_health_result(outcome) ==
    IF outcome.kind = "error" THEN Err(Error_from(outcome.err)) ELSE Ok("()")

\* new_result with the health check's result dropped (no `?`).
new_result_unchecked(w, h) == Ok(w)

\* WalletClient::new: `w.check_health().await?` and then Ok(w).
new_result(w, h) == IF h.ok THEN Ok(w) ELSE h

\* list_keys_result with a body that does not deserialize taken as no keys.
list_keys_result_lenient(outcome, id) ==
    IF outcome.kind = "error" THEN Err(Error_from(outcome.err))
    ELSE LET r == De("Response<KeysResponse>", outcome.body)
         IN  IF r.ok THEN Ok(r.val.result) ELSE Ok([keys |-> <<>>])

\* list_keys_result with the response's id checked against the request's.
list_keys_result_correlated(outcome, id) ==
    IF outcome.kind = "error" THEN Err(Error_from(outcome.err))
    ELSE LET r == De("Response<KeysResponse>", outcome.body)
         IN  IF ~r.ok THEN Err(Error_from([kind |-> "decode", source |-> r.err]))
             ELSE IF r.val.id # id THEN Err(Error_from([kind |-> "decode", source |-> "id"]))
             ELSE Ok(r.val.result)

\* list_keys: `.send().await?`, then `resp.json::<Response<KeysResponse>>()
\* .await?` and `.result`.  A body that does not deserialize is a
\* reqwest::Error too, of kind decode.  id is the id of the request sent:
\* it is at hand and not consulted.
list_keys_result(outcome, id) ==
    IF outcome.kind = "error" THEN Err(Error_from(outcome.err))
    ELSE LET r == De("Response<KeysResponse>", outcome.body)
         IN  IF r.ok THEN Ok(r.val.result)
             ELSE Err(Error_from([kind |-> "decode", source |-> r.err]))

\* What the stubs `pub fn send(&self) {}` and `pub fn sign(&self) {}` return.
Unit == [unit |-> TRUE]

\* send_result of a send that reports it is not implemented.
send_result_unimplemented == [ok |-> FALSE, err |-> [kind |-> "NotImplemented"]]

send_result == Unit

sign_result == Unit

\* The arguments of WalletClient::new.
Addresses == {"http://localhost:1789", "http://wallet"}
Tokens == {"yf7loKt7"}
PubKeys == {"6545621b"}

\* Statuses the service answers with.
Statuses == {200, 204, 404, 503}

\* Keys the service lists.
Key1 == JObj(<< <<"name", JStr("k1")>>, <<"publicKey", JStr("abc123")>> >>)
Key2 == JObj(<< <<"publicKey", JStr("ff00")>>, <<"name", JStr("k2")>> >>)
KeyLists == {<<>>, <<Key1>>, <<Key1, Key2>>, <<Key2, Key1>>}

Envelope(version, result, id) ==
    JObj(<< <<"jsonrpc", JStr(version)>>, <<"result", result>>, <<"id", JStr(id)>> >>)

\* Bodies the service answers a list_keys request of the given id with.
Bodies(id) ==
    {Envelope("2.0", JObj(<< <<"keys", JArr(ks)>> >>), id) : ks \in KeyLists}
    \cup {Envelope(v, JObj(<< <<"keys", JArr(<<Key1, Key2>>)>> >>), i) :
             v \in {"2.0", "1.0"}, i \in {id, "mismatch"}}
    \cup {JGarbage,
          JObj(<< <<"jsonrpc", JStr("2.0")>>,
                  <<"error", JObj(<< <<"code", JNum(-32601)>> >>)>>,
                  <<"id", JStr(id)>> >>),
          Envelope("2.0", JObj(<< <<"keys", JArr(<<
              JObj(<< <<"name", JStr("k1")>>, <<"public_key", JStr("abc123")>> >>)
              >>)>> >>), id),
          JObj(<< <<"jsonrpc", JStr("2.0")>>,
                  <<"result", JObj(<< <<"keys", JArr(<<Key1>>)>> >>)>>,
                  <<"id", JNum(1)>> >>)}

\* Values rand::random::<u64>() returns in list_keys.
ListKeysIds == {4096}

HealthOutcomes ==
    {Failure(e) : e \in NetworkErrors} \cup {Response(st, JGarbage) : st \in Statuses}

PostOutcomes(id) ==
    {Failure(e) : e \in NetworkErrors}
    \cup {Response(200, b) : b \in Bodies(id)}
    \cup {Response(503, JGarbage)}

\* The last request's outcome is filled in.
Complete(log, outcome) == [log EXCEPT ![Len(log)].outcome = outcome]

InitClient ==
    /\ pc = "start"
    /\ client = NoValue
    /\ args = NoValue
    /\ net = <<>>
    /\ sentId = ""
    /\ lastOp = "none"
    /\ lastResult = NoValue
    /\ calls = 0

\* WalletClient::new up to the await of the health check's GET.
WalletClient_new_begin(wallet_address, token, pubkey) ==
    /\ pc = "start"
    /\ calls < MaxCalls
    /\ LET a == [wallet_address |-> wallet_address, token |-> token, pubkey |-> pubkey]
       IN  /\ args' = a
           /\ net' = Append(net, [by |-> "new", method |-> "GET",
                                  url |-> WalletClient_of(a).endpoints.health,
                                  headers |-> <<>>, body |-> NoValue,
                                  outcome |-> Pending])
    /\ pc' = "new_await"
    /\ UNCHANGED <<client, sentId, lastOp, lastResult, calls>>
    /\ UNCHANGED codecVars

\* WalletClient::new from the GET's completion to its return.
WalletClient_new_end(outcome) ==
    /\ pc = "new_await"
    /\ net' = Complete(net, outcome)
    /\ LET r == new_result(WalletClient_of(args), check_health_result(outcome))
       IN  /\ lastResult' = r
           /\ client' = IF r.ok THEN r.val ELSE NoValue
           /\ pc' = IF r.ok THEN "ready" ELSE "failed"
    /\ lastOp' = "new"
    /\ calls' = calls + 1
    /\ UNCHANGED <<args, sentId>>
    /\ UNCHANGED codecVars

\* check_health, called by the holder of a client, up to the await.
check_health_begin ==
    /\ pc = "ready"
    /\ calls < MaxCalls
    /\ net' = Append(net, [by |-> "check_health", method |-> "GET",
                           url |-> client.endpoints.health,
                           headers |-> <<>>, body |-> NoValue,
                           outcome |-> Pending])
    /\ pc' = "health_await"
    /\ UNCHANGED <<client, args, sentId, lastOp, lastResult, calls>>
    /\ UNCHANGED codecVars

check_health_end(outcome) ==
    /\ pc = "health_await"
    /\ net' = Complete(net, outcome)
    /\ lastResult' = check_health_result(outcome)
    /\ lastOp' = "check_health"
    /\ pc' = "ready"
    /\ calls' = calls + 1
    /\ UNCHANGED <<client, args, sentId>>
    /\ UNCHANGED codecVars

\* list_keys up to the await of the POST; r is the request's random id.
list_keys_begin(r) ==
    /\ pc = "ready"
    /\ calls < MaxCalls
    /\ net' = Append(net, [by |-> "list_keys", method |-> "POST",
                           url |-> client.endpoints.request,
                           headers |-> << <<"Origin", client.endpoints.base_url>>,
                                          <<"Authorization", client.endpoints.token_header>> >>,
                           body |-> Ser("Request", new_list_keys(r)),
                           outcome |-> Pending])
    /\ sentId' = new_list_keys(r).id
    /\ pc' = "list_keys_await"
    /\ UNCHANGED <<client, args, lastOp, lastResult, calls>>
    /\ UNCHANGED codecVars

\* list_keys from the POST's completion to its return.
list_keys_end(outcome) ==
    /\ pc = "list_keys_await"
    /\ net' = Complete(net, outcome)
    /\ lastResult' = list_keys_result(outcome, sentId)
    /\ lastOp' = "list_keys"
    /\ pc' = "ready"
    /\ calls' = calls + 1
    /\ UNCHANGED <<client, args, sentId>>
    /\ UNCHANGED codecVars

\* pub fn send(&self) {}
send ==
    /\ pc = "ready"
    /\ calls < MaxCalls
    /\ lastResult' = send_result
    /\ lastOp' = "send"
    /\ calls' = calls + 1
    /\ UNCHANGED <<pc, client, args, net, sentId>>
    /\ UNCHANGED codecVars

\* pub fn sign(&self) {}
sign ==
    /\ pc = "ready"
    /\ calls < MaxCalls
    /\ lastResult' = sign_result
    /\ lastOp' = "sign"
    /\ calls' = calls + 1
    /\ UNCHANGED <<pc, client, args, net, sentId>>
    /\ UNCHANGED codecVars

Next ==
    \/ \E a \in Addresses : \E t \in Tokens : \E k \in PubKeys :
          WalletClient_new_begin(a, t, k)
    \/ \E o \in HealthOutcomes : WalletClient_new_end(o)
    \/ check_health_begin
    \/ \E o \in HealthOutcomes : check_health_end(o)
    \/ \E r \in ListKeysIds : list_keys_begin(r)
    \/ \E o \in PostOutcomes(sentId) : list_keys_end(o)
    \/ send
    \/ sign

-----------------------------------------------------------------------------
(* The specifications.                                                     *)

Init == InitClient /\ InitCodec

\* The caller of the WalletClient and the wallet service.
Spec == Init /\ [][Next]_vars

\* The codec and the Request constructors applied to the inputs.
SpecCodec == Init /\ [][NextCodec]_vars

-----------------------------------------------------------------------------
(* What the documentation of the wire contract says, for the properties.   *)

\* The key each Command variant is documented to serialize under.
DocumentedCommandKey(variant) ==
    CASE variant = "BatchMarketInstructions" -> "batchMarketInstructions"
      [] variant = "OrderSubmission" -> "orderSubmission"
      [] variant = "OrderCancellation" -> "orderCancellation"
      [] variant = "OrderAmendment" -> "orderAmendment"
      [] variant = "VoteSubmission" -> "voteSubmission"

DocumentedCommandKeys ==
    {DocumentedCommandKey(v) : v \in VariantNames("Command")}

VariantOfKey(k) ==
    CHOOSE v \in VariantNames("Command") : DocumentedCommandKey(v) = k

\* The prefix each enum's tags are documented to carry.
TagPrefix(ty) ==
    CASE ty = "Side" -> "SIDE_"
      [] ty = "OrderType" -> "TYPE_"
      [] ty = "TimeInForce" -> "TIME_IN_FORCE_"
      [] ty = "PeggedReference" -> "PEGGED_REFERENCE_"
      [] ty = "VoteValue" -> "VALUE_"

\* BestAsk -> BEST_ASK
RECURSIVE ScreamingSnakeFrom(_, _)
ScreamingSnakeFrom(name, i) ==
    IF i > Len(name) THEN ""
    ELSE (IF i > 1 /\ IsUpper(Char(name, i)) THEN "_" ELSE "")
         \o to_ascii_uppercase(Char(name, i))
         \o ScreamingSnakeFrom(name, i + 1)

DocumentedTag(ty, variant) == TagPrefix(ty) \o ScreamingSnakeFrom(variant, 1)

DocumentedTags(ty) == {DocumentedTag(ty, v) : v \in VariantNames(ty)}

IsLowerCamel(k) ==
    /\ Len(k) > 0
    /\ IsLower(Char(k, 1))
    /\ \A i \in 1..Len(k) : Char(k, i) # "_"

\* Every member name of every object within j is in lowerCamelCase.
RECURSIVE KeysCamel(_)
KeysCamel(j) ==
    IF j.t = "obj"
    THEN \A i \in 1..Len(j.o) : IsLowerCamel(j.o[i][1]) /\ KeysCamel(j.o[i][2])
    ELSE IF j.t = "arr" THEN \A i \in 1..Len(j.a) : KeysCamel(j.a[i])
    ELSE TRUE

IsDigit(c) == \E i \in 1..10 : Char(Digits, i) = c

RECURSIVE ParseDecimal(_)
ParseDecimal(s) ==
    IF Len(s) = 0 THEN 0
    ELSE 10 * ParseDecimal(SubSeq(s, 1, Len(s) - 1))
         + ((CHOOSE i \in 1..10 : Char(Digits, i) = Char(s, Len(s))) - 1)

\* s is the decimal rendering of the unsigned integer n.
IsDecimalOf(s, n) ==
    /\ Len(s) >= 1
    /\ \A i \in 1..Len(s) : IsDigit(Char(s, i))
    /\ (Len(s) = 1 \/ Char(s, 1) # "0")
    /\ ParseDecimal(s) = n
    /\ n >= 0

\* The one member of object j named k.
Member(j, k) == j.o[CHOOSE i \in Members(j, k) : TRUE][2]

Has1(j, k, t) ==
    /\ j.t = "obj"
    /\ Cardinality(Members(j, k)) = 1
    /\ Member(j, k).t = t

\* b is an envelope {jsonrpc, result, id} whose result is {keys: [{name, publicKey}..]}.
WellFormedKeysEnvelope(b) ==
    /\ Has1(b, "jsonrpc", "str")
    /\ Has1(b, "id", "str")
    /\ Has1(b, "result", "obj")
    /\ Has1(Member(b, "result"), "keys", "arr")
    /\ \A i \in 1..Len(Member(Member(b, "result"), "keys").a) :
          LET k == Member(Member(b, "result"), "keys").a[i]
          IN  Has1(k, "name", "str") /\ Has1(k, "publicKey", "str")

\* The keys of a well-formed envelope, in the order received.
EnvelopeKeys(b) ==
    LET ks == Member(Member(b, "result"), "keys").a
    IN  [i \in 1..Len(ks) |->
            [name |-> Member(ks[i], "name").s,
             public_key |-> Member(ks[i], "publicKey").s]]

IsErr(r) == "ok" \in DOMAIN r /\ ~r.ok
IsOk(r) == "ok" \in DOMAIN r /\ r.ok

\* The outcome of the request issued last.
LastOutcome == net[Len(net)].outcome

\* list_keys has just returned to the caller.
ListKeysReturned == pc = "ready" /\ lastOp = "list_keys"

-----------------------------------------------------------------------------
(* The claims.                                                             *)

\* C1: every serialized Command is a one-member object whose key is the
\* lowerCamelCase variant name and whose payload carries every field, at
\* every depth, under a lowerCamelCase name (proposalId for VoteSubmission);
\* no field goes out under a snake_case name.
C1_CamelCaseWire ==
    stage = "serialized" =>
        /\ wire.t = "obj"
        /\ Len(wire.o) = 1
        /\ wire.o[1][1] = DocumentedCommandKey(cmd.variant)
        /\ KeysCamel(wire.o[1][2])
        /\ cmd.variant = "VoteSubmission" => Members(wire.o[1][2], "proposalId") # {}

\* C2: when the health endpoint answers the GET of WalletClient::new with a
\* status outside 2xx, new returns an error and the caller gets no client.
C2_Non2xxFailsConstruction ==
    (/\ lastOp # "none"
     /\ net[1].outcome.kind = "response"
     /\ net[1].outcome.status \notin 200..299)
    => (client = NoValue /\ pc = "failed")

\* C3: round trip: deserializing what a Command serialized to gives back a
\* value equal to the Command, list order and absent / present included.
C3_RoundTrip ==
    (stage = "decoded" /\ cmd # NoValue) => decoded = Ok(cmd)

\* Reached: a batch of two different cancellations and an amendment without
\* a price but with an expiry, round-tripped.
C3_Witness ==
    /\ stage = "decoded"
    /\ cmd # NoValue
    /\ cmd.variant = "BatchMarketInstructions"
    /\ Len(cmd.payload.cancellations) = 2
    /\ cmd.payload.cancellations[1] # cmd.payload.cancellations[2]
    /\ Len(cmd.payload.amendments) = 1
    /\ ~cmd.payload.amendments[1].price.some
    /\ cmd.payload.amendments[1].expires_at.some
    /\ decoded.ok
    /\ decoded.val.payload.cancellations = cmd.payload.cancellations
    /\ decoded.val.payload.amendments = cmd.payload.amendments

\* C4: enum fidelity: each variant of the five enums encodes to its
\* documented tag, distinct variants to distinct tags, a documented tag
\* decodes to the variant that encodes to it, and any other string fails
\* to decode (it never becomes Unspecified).
C4_EnumFidelity ==
    /\ stage = "enum_encoded" =>
          /\ wire = JStr(DocumentedTag(enum.ty, enum.variant))
          /\ \A v \in VariantNames(enum.ty) \ {enum.variant} : Ser(enum.ty, v) # wire
    /\ (stage = "enum_decoded" /\ enum.variant # "?") => decoded = Ok(enum.variant)
    /\ (stage = "enum_decoded" /\ enum.variant = "?") =>
          IF wire.s \in DocumentedTags(enum.ty)
          THEN decoded.ok /\ DocumentedTag(enum.ty, decoded.val) = wire.s
          ELSE IsErr(decoded)

\* Reached: a tag of another casing was refused where a Side was expected.
C4_Witness ==
    /\ stage = "enum_decoded"
    /\ enum.ty = "Side"
    /\ wire = JStr("Unspecified")
    /\ IsErr(decoded)

C6_EnvelopeShape ==
    /\ stage = "send_transaction" =>
          /\ req.version = "2.0"
          /\ req.method = "client.send_transaction"
          /\ req.params.some
          /\ req.params.val.sending_mode = "TYPE_SYNC"
          /\ req.params.val.transaction = cmd
          /\ IsDecimalOf(req.id, rnd)
          /\ Has1(wire, "params", "obj")
          /\ Member(wire, "params") =
                JObj(<< <<"sendingMode", JStr("TYPE_SYNC")>>,
                        <<"transaction", Ser("Command", cmd)>> >>)
    /\ stage = "list_keys" =>
          /\ req.version = "2.0"
          /\ req.method = "client.list_keys"
          /\ ~req.params.some
          /\ IsDecimalOf(req.id, rnd)
          /\ wire = JObj(<< <<"jsonrpc", JStr("2.0")>>,
                            <<"method", JStr("client.list_keys")>>,
                            <<"params", JNull>>,
                            <<"id", JStr(req.id)>> >>)

\* Reached: a send_transaction request for an amendment, with a long id.
C6_Witness ==
    /\ stage = "send_transaction"
    /\ rnd = 2147483647
    /\ req.id = "2147483647"
    /\ cmd.variant = "OrderAmendment"
    /\ req.params.val.transaction = cmd

C8_HealthBeforeUse ==
    LET byNew == {i \in 1..Len(net) : net[i].by = "new"}
    IN  /\ pc = "start" => net = <<>>
        /\ pc # "start" =>
              /\ byNew = {1}
              /\ net[1].method = "GET"
              /\ net[1].url = args.wallet_address \o "/api/v2/health"
        /\ client # NoValue => net[1].outcome.kind = "response"
        /\ (pc # "start" /\ net[1].outcome.kind = "error") =>
              /\ client = NoValue
              /\ IsErr(lastResult)
              /\ Len(net) = 1
        /\ \A i \in 1..Len(net) :
              net[i].by = "list_keys" =>
                  /\ net[i].method = "POST"
                  /\ net[i].url = args.wallet_address \o "/api/v2/requests"
                  /\ i > 1
                  /\ net[1].outcome.kind = "response"

\* Reached: a list_keys POST went out after a health check that completed.
C8_Witness ==
    /\ Len(net) >= 2
    /\ net[2].by = "list_keys"
    /\ net[1].by = "new"
    /\ net[1].outcome.kind = "response"
    /\ client # NoValue

\* C9 as stated: send and sign return an explicit NotImplemented error.
C9_NotImplemented ==
    lastOp \in {"send", "sign"} =>
        (IsErr(lastResult) /\ lastResult.err.kind = "NotImplemented")

\* C9 as amended: send and sign return nothing (the unit value, no error
\* kind at all), issue no network request and change no client state.
C9_SilentNoOp ==
    [][(calls' = calls + 1 /\ lastOp' \in {"send", "sign"}) =>
          /\ lastResult' = Unit
          /\ net' = net
          /\ client' = client
          /\ pc' = pc]_vars

\* Reached: send returned to the holder of a client.
C9_Witness ==
    /\ lastOp = "send"
    /\ lastResult = Unit
    /\ client # NoValue
    /\ calls = 2

\* C10: whenever the body answering a list_keys POST is an envelope
\* {jsonrpc, result, id} with a well-formed KeysResponse, list_keys returns
\* exactly that result, keys in the order received, whatever the id and the
\* version of the response are.
C10_IdUnchecked ==
    (/\ ListKeysReturned
     /\ LastOutcome.kind = "response"
     /\ WellFormedKeysEnvelope(LastOutcome.body))
    => lastResult = Ok([keys |-> EnvelopeKeys(LastOutcome.body)])

\* Reached: a response of another id and another version was accepted.
C10_Witness ==
    /\ ListKeysReturned
    /\ LastOutcome.kind = "response"
    /\ WellFormedKeysEnvelope(LastOutcome.body)
    /\ Member(LastOutcome.body, "id").s # sentId
    /\ Member(LastOutcome.body, "jsonrpc").s # "2.0"
    /\ IsOk(lastResult)
    /\ Len(lastResult.val.keys) = 2
    /\ lastResult.val.keys[1].name = "k1"

====
